---- MODULE Spec2Model ----
(***************************************************************************)
(* quicksight-sync: export of a QuickSight analysis with the datasets and *)
(* data sources it depends on (get_dump), and import of such a dump into  *)
(* a target account (import_dump), with the two command functions         *)
(* export_cli / import_cli around them.                                   *)
(*                                                                         *)
(* Representation of Python values:                                        *)
(*   str   a sequence of tokens (each token a TLA+ string), so that        *)
(*         concatenation is \o and str.split works on separator tokens;    *)
(*   dict  a function whose domain is the set of its keys;                 *)
(*   list  a sequence;                                                     *)
(*   None  the empty function.  Every str, list and dict that the model    *)
(*         stores under a key whose value the code tests against None is   *)
(*         non-empty, so None differs from all of them.                    *)
(* A function that can raise returns [raised |-> <exception class>] or     *)
(* [raised |-> "", value |-> <result>].                                    *)
(***************************************************************************)
EXTENDS Integers, Sequences, FiniteSets, TLC

(***************************************************************************)
(* Bounds of the model.                                                    *)
(***************************************************************************)
\* number of dataset identifiers of the source account (at least 3: two
\* datasets that an analysis of a dump file declares, and the dataset of
\* the row-level-security rules)
MaxDataSets == 3
\* number of data-source identifiers of the source account, and the largest
\* number of data sources in a dump file
MaxDataSources == 2

(***************************************************************************)
(* Python values                                                           *)
(***************************************************************************)
None == << >>

Ok(v) == [raised |-> "", value |-> v]
Raise(e) == [raised |-> e]
\* botocore.exceptions.ClientError with err.response["Error"]["Code"] = code
ClientError(code) == [raised |-> "ClientError", code |-> code]

\* d[k] = v on a copy of dict d
Put(d, k, v) == [q \in DOMAIN d \cup {k} |-> IF q = k THEN v ELSE d[q]]
\* dict d without key k
Pop(d, k) == [q \in DOMAIN d \ {k} |-> d[q]]
\* d.get(k, default)
Get(d, k, default) == IF k \in DOMAIN d THEN d[k] ELSE default
\* list(d.values()), in some order of the keys
RECURSIVE Values(_)
Values(d) ==
    IF DOMAIN d = {} THEN << >>
    ELSE LET k == CHOOSE q \in DOMAIN d : TRUE
         IN  <<d[k]>> \o Values(Pop(d, k))
\* set(list)
Range(s) == {s[i] : i \in DOMAIN s}
\* the concatenation of a list of lists
RECURSIVE Flatten(_)
Flatten(ss) == IF ss = << >> THEN << >> ELSE Head(ss) \o Flatten(Tail(ss))

\* str.split(sep): the pieces of s between the occurrences of token sep
RECURSIVE Split(_, _)
Split(s, sep) ==
    IF \A i \in DOMAIN s : s[i] # sep THEN <<s>>
    ELSE LET i == CHOOSE j \in DOMAIN s :
                      s[j] = sep /\ \A h \in 1..(j - 1) : s[h] # sep
         IN  <<SubSeq(s, 1, i - 1)>> \o Split(SubSeq(s, i + 1, Len(s)), sep)

(***************************************************************************)
(* essentials.py: locators (ARNs)                                          *)
(***************************************************************************)
get_id_from_arn(arn) == LET parts == Split(arn, "/") IN parts[Len(parts)]

\* the segment before the account
get_account_id_from_arn_region(arn) == Split(arn, ":")[4]

get_account_id_from_arn(arn) == Split(arn, ":")[5]

\* arn:aws:quicksight:us-east-1:<account>:<resource>/<id>
Arn(account, resource, id) ==
    <<"arn", ":", "aws", ":", "quicksight", ":", "us-east-1", ":">>
        \o account \o <<":", resource, "/">> \o id

\* The generator stops at the first entry without arn_key (an entry that is
\* None makes the test "arn_key not in dataset" itself raise TypeError).
get_asset_ids_from_definition(definitions, arn_key) ==
    LET bad == {i \in DOMAIN definitions :
                   arn_key \notin DOMAIN definitions[i]}
    IN  IF bad = {}
        THEN Ok([i \in DOMAIN definitions |->
                    get_id_from_arn(definitions[i][arn_key])])
        ELSE LET first == CHOOSE i \in bad : \A j \in bad : i <= j
             IN  IF definitions[first] = None THEN Raise("TypeError")
                 ELSE Raise("IndexError")

\* set(generator): the exception of the generator, or the set of its items
SetOf(r) == IF r.raised # "" THEN r ELSE Ok(Range(r.value))

(***************************************************************************)
(* export_assets.py: the dependency extractors                             *)
(***************************************************************************)
\* analysis_definition.get("Definition").get("DataSetIdentifierDeclarations")
\* is None when the key is absent: None.get raises AttributeError, and
\* iterating None inside the generator raises TypeError.
get_analysis_dataset_ids(analysis_definition) ==
    IF "Definition" \notin DOMAIN analysis_definition
        THEN Raise("AttributeError")
    ELSE IF "DataSetIdentifierDeclarations"
                \notin DOMAIN analysis_definition["Definition"]
        THEN Raise("TypeError")
    ELSE SetOf(get_asset_ids_from_definition(
             analysis_definition["Definition"]["DataSetIdentifierDeclarations"],
             "DataSetArn"))

\* an extractor that reads the definitions inside {"definition",
\* "permissions"} rows
get_rls_dataset_ids_of_rows(dataset_definitions) ==
    LET definitions ==
            [i \in DOMAIN dataset_definitions |->
                IF "definition" \in DOMAIN dataset_definitions[i]
                THEN dataset_definitions[i]["definition"]
                ELSE dataset_definitions[i]]
        with_rls == SelectSeq(definitions,
                        LAMBDA ds : "RowLevelPermissionDataSet" \in DOMAIN ds)
        rls_dataset_definitions ==
            [i \in DOMAIN with_rls |-> with_rls[i]["RowLevelPermissionDataSet"]]
    IN  IF Len(rls_dataset_definitions) = 0 THEN Ok({})
        ELSE SetOf(get_asset_ids_from_definition(rls_dataset_definitions, "Arn"))

get_rls_dataset_ids(dataset_definitions) ==
    LET with_rls == SelectSeq(dataset_definitions,
                        LAMBDA ds : "RowLevelPermissionDataSet" \in DOMAIN ds)
        rls_dataset_definitions ==
            [i \in DOMAIN with_rls |-> with_rls[i]["RowLevelPermissionDataSet"]]
    IN  IF Len(rls_dataset_definitions) = 0 THEN Ok({})
        ELSE SetOf(get_asset_ids_from_definition(rls_dataset_definitions, "Arn"))

get_datasource_ids(dataset_definitions) ==
    LET tables(ds) == SelectSeq(Values(Get(ds, "PhysicalTableMap", << >>)),
                          LAMBDA ref : "RelationalTable" \in DOMAIN ref)
        datasorce_references ==
            Flatten([i \in DOMAIN dataset_definitions |->
                [j \in DOMAIN tables(dataset_definitions[i]) |->
                    tables(dataset_definitions[i])[j]["RelationalTable"]]])
    IN  IF Len(datasorce_references) = 0 THEN Ok({})
        ELSE SetOf(get_asset_ids_from_definition(datasorce_references,
                                                 "DataSourceArn"))

(***************************************************************************)
(* The source account: what the describe operations answer from.           *)
(***************************************************************************)
SourceAccount == <<"111111111111">>
TargetAccount == <<"222222222222">>

DataSetIdOf(i) == <<"dataset", ToString(i)>>
DataSourceIdOf(j) == <<"source", ToString(j)>>
DataSetIds == {DataSetIdOf(i) : i \in 1..MaxDataSets}
DataSourceIds == {DataSourceIdOf(j) : j \in 1..MaxDataSources}
\* the dataset that holds the row-level-security rules
RulesDataSetId == DataSetIdOf(MaxDataSets)
AnalysisId == <<"analysis">>

Grants == <<[Principal |-> "admin", Actions |-> "all"]>>

\* one entry of a PhysicalTableMap: {kind: {"DataSourceArn": arn, ...}}
PhysicalTable(kind, arn) ==
    [k \in {kind} |-> [DataSourceArn |-> arn, Name |-> <<"table">>]]

RelationalTable(account, j) ==
    PhysicalTable("RelationalTable", Arn(account, "datasource", DataSourceIdOf(j)))

\* The table maps of the model: one relational table on the first data
\* source, two relational tables on the first and on the last data source,
\* or one custom-SQL table on the first data source.
PhysicalTableMaps(account) ==
    {[t1 |-> RelationalTable(account, 1)],
     [t1 |-> RelationalTable(account, 1),
      t2 |-> RelationalTable(account, MaxDataSources)],
     [t1 |-> PhysicalTable("CustomSql",
                           Arn(account, "datasource", DataSourceIdOf(1)))]}

\* the DataSet member of a describe_data_set response
DataSetDefinition(account, id, tables, rls) ==
    LET base == [DataSetId |-> id,
                 Name |-> <<"name of ">> \o id,
                 PhysicalTableMap |-> tables,
                 LogicalTableMap |-> [l1 |-> <<"logical table">>],
                 OutputColumns |-> <<"column">>,
                 ImportMode |-> <<"SPICE">>]
    IN  IF rls = None THEN base
        ELSE Put(base, "RowLevelPermissionDataSet",
                 [Arn |-> Arn(account, "dataset", rls),
                  PermissionPolicy |-> <<"GRANT_ACCESS">>])

\* the DataSource member of a describe_data_source response; the response
\* for the first data source carries a Credentials member, the others none
DataSourceDefinition(account, id) ==
    LET base == [DataSourceId |-> id,
                 Name |-> <<"name of ">> \o id,
                 Type |-> <<"ATHENA">>,
                 DataSourceParameters |-> [AthenaParameters |-> <<"primary">>],
                 Arn |-> Arn(account, "datasource", id)]
    IN  IF id = DataSourceIdOf(1)
        THEN Put(base, "Credentials",
                 [CredentialPair |-> [Username |-> <<"user">>,
                                      Password |-> <<"secret">>]])
        ELSE base

Declaration(id) ==
    [Identifier |-> <<"identifier of ">> \o id,
     DataSetArn |-> Arn(SourceAccount, "dataset", id)]
\* a declaration that lacks its DataSetArn
BrokenDeclaration == [Identifier |-> <<"identifier">>]

\* the declaration lists of the model: no, one or two declarations
DeclarationLists ==
    LET Declarations == {Declaration(id) : id \in DataSetIds}
                            \cup {BrokenDeclaration}
    IN  {<< >>} \cup {<<a>> : a \in Declarations}
            \cup {<<a, b>> : a \in Declarations, b \in Declarations}

\* a describe_analysis_definition response (without its Status)
AnalysisDefinition(definition) ==
    [AnalysisId |-> AnalysisId, Name |-> <<"sales">>, Definition |-> definition]

AnalysisDefinitions ==
    {AnalysisDefinition([DataSetIdentifierDeclarations |-> decls,
                         Sheets |-> <<"sheet">>]) : decls \in DeclarationLists}
    \cup {AnalysisDefinition([Sheets |-> <<"sheet">>])}

\* the dataset identifiers an analysis definition declares
DeclaredIds(analysis) ==
    LET decls == Get(analysis["Definition"], "DataSetIdentifierDeclarations", << >>)
    IN  {get_id_from_arn(decls[i]["DataSetArn"]) :
            i \in {j \in DOMAIN decls : "DataSetArn" \in DOMAIN decls[j]}}

\* the row-level-security dataset a dataset definition refers to, as a set
RlsIdOf(ds) ==
    IF Get(ds, "RowLevelPermissionDataSet", None) = None THEN {}
    ELSE {get_id_from_arn(ds["RowLevelPermissionDataSet"]["Arn"])}

\* A source account: an analysis and the datasets of the account.  Datasets
\* the analysis does not depend on all look alike (they are never read).
SourceAccounts ==
    LET Options == PhysicalTableMaps(SourceAccount) \X BOOLEAN
        make(id, o) == DataSetDefinition(SourceAccount, id, o[1],
                           IF o[2] /\ id # RulesDataSetId
                           THEN RulesDataSetId ELSE None)
        plain == <<[t1 |-> RelationalTable(SourceAccount, 1)], FALSE>>
        used(a, f) == DeclaredIds(a) \cup
                          UNION {RlsIdOf(make(id, f[id])) : id \in DeclaredIds(a)}
    IN  {[analysis |-> a,
          datasets |-> [id \in DataSetIds |-> make(id, f[id])]] :
            <<a, f>> \in {<<a, f>> \in AnalysisDefinitions \X [DataSetIds -> Options] :
                \A id \in DataSetIds \ used(a, f) : f[id] = plain}}

(***************************************************************************)
(* essentials.py: describe_asset, and the provider's answers               *)
(***************************************************************************)
NoLookup == ""
Statuses == {200, 404}

\* What a provider call can do: raise botocore's ClientError, or answer
\* with a Status, or answer without one.
ProviderOutcomes(payload) ==
    {ClientError("AccessDeniedException"), Ok(payload)}
        \cup {Ok(Put(payload, "Status", st)) : st \in Statuses}

\* A create call can also find that the object exists already.
CreateOutcomes(payload) ==
    ProviderOutcomes(payload) \cup {ClientError("ResourceExistsException")}

\* A call that is made only after an earlier call went a certain way: what
\* it does if it is made, and nothing to choose if it is not.
OutcomesIf(made, payload) ==
    IF made THEN ProviderOutcomes(payload) ELSE {Ok(payload)}

Exists(created) ==
    created.raised = "ClientError" /\ created.code = "ResourceExistsException"

\* describe_asset, given what describe_fn(AwsAccountId=..., **params) did
describe_asset(outcome, lookup_field) ==
    IF outcome.raised # "" THEN outcome
    ELSE LET response == outcome.value
         IN  IF 200 <= Get(response, "Status", 0) /\ Get(response, "Status", 0) < 300
             THEN Ok(IF lookup_field # NoLookup
                     THEN Get(response, lookup_field, None) ELSE response)
             ELSE Raise("ValueError")

(***************************************************************************)
(* export_assets.py: the dump records                                      *)
(***************************************************************************)
dump_analysis(definition, permissions) ==
    [AnalysisId |-> definition["AnalysisId"],
     Name |-> definition["Name"],
     Definition |-> definition["Definition"],
     Permissions |-> permissions]

dump_dataset(definition, permissions) ==
    [DataSetId |-> definition["DataSetId"],
     Name |-> definition["Name"],
     PhysicalTableMap |-> definition["PhysicalTableMap"],
     LogicalTableMap |-> definition["LogicalTableMap"],
     OutputColumns |-> definition["OutputColumns"],
     ImportMode |-> definition["ImportMode"],
     Permissions |-> permissions,
     RowLevelPermissionDataSet |-> Get(definition, "RowLevelPermissionDataSet", None),
     DataSetUsageConfiguration |-> Get(definition, "DataSetUsageConfiguration", None)]

\* a dump that takes the credentials of the describe response along
dump_data_source_with_credentials(definition, permissions) ==
    [DataSourceId |-> definition["DataSourceId"],
     Name |-> definition["Name"],
     Type |-> definition["Type"],
     DataSourceParameters |-> definition["DataSourceParameters"],
     Credentials |-> Get(definition, "Credentials", None),
     Permissions |-> permissions,
     VpcConnectionProperties |-> Get(definition, "VpcConnectionProperties", None),
     SslProperties |-> Get(definition, "SslProperties", None),
     ErrorInfo |-> Get(definition, "ErrorInfo", None)]

dump_data_source(definition, permissions) ==
    [DataSourceId |-> definition["DataSourceId"],
     Name |-> definition["Name"],
     Type |-> definition["Type"],
     DataSourceParameters |-> definition["DataSourceParameters"],
     Credentials |-> None,
     Permissions |-> permissions,
     VpcConnectionProperties |-> Get(definition, "VpcConnectionProperties", None),
     SslProperties |-> Get(definition, "SslProperties", None),
     ErrorInfo |-> Get(definition, "ErrorInfo", None)]

(***************************************************************************)
(* essentials.py: create_or_update_asset                                   *)
(***************************************************************************)
\* a call of the target account, as the call log keeps it
Call(api, kind, params, outcome) ==
    [api |-> api, kind |-> kind, params |-> params,
     outcome |-> IF outcome.raised = "" THEN "answered" ELSE outcome.code,
     status |-> IF outcome.raised = "" THEN Get(outcome.value, "Status", 0)
                ELSE 0,
     response |-> IF outcome.raised = "" THEN outcome.value ELSE None]

\* a status check that lets every response pass
CheckStatus_ignored(response) == Ok(response)

\* the status check that ends create_or_update_asset
CheckStatus(response) ==
    IF Get(response, "Status", 0) < 200 \/ Get(response, "Status", 0) >= 300
    THEN Raise("ValueError") ELSE Ok(response)

\* created / updated: what create_fn(**params) and update_fn(**params) do.
\* The result carries the calls that were issued.
create_or_update_asset(kind, params, created, updated) ==
    LET create == Call("create", kind, params, created)
    IN  IF created.raised = ""
            THEN CheckStatus(created.value) @@ [calls |-> <<create>>]
        ELSE IF created.raised = "ClientError"
                    /\ created.code = "ResourceExistsException"
            THEN IF "Permissions" \notin DOMAIN params
                 THEN Raise("KeyError") @@ [calls |-> <<create>>]
                 ELSE LET stripped == Pop(Pop(params, "Permissions"), "Type")
                          update == Call("update", kind, stripped, updated)
                      IN  (IF updated.raised # "" THEN Raise(updated.raised)
                           ELSE CheckStatus(updated.value))
                              @@ [calls |-> <<create, update>>]
        ELSE Raise(created.raised) @@ [calls |-> <<create>>]

(***************************************************************************)
(* import_assets.py                                                        *)
(***************************************************************************)
IMPORT_SUFFIX == <<"-imported">>

\* {key: value for key, value in d.items() if value is not None}
StripNone(d) == [k \in {q \in DOMAIN d : d[q] # None} |-> d[k]]

prepare_datasource_definition(account_id, datasource) ==
    Put(Put(StripNone(datasource), "Name", datasource["Name"] \o IMPORT_SUFFIX),
        "AwsAccountId", account_id)

\* what create_data_source / update_data_source answer
DataSourceResponse(params) ==
    [Arn |-> Arn(params["AwsAccountId"], "datasource", params["DataSourceId"]),
     DataSourceId |-> params["DataSourceId"],
     CreationStatus |-> <<"CREATION_IN_PROGRESS">>]

\* the parameters import_datasource calls create_data_source with
DataSourceParams(datasource) ==
    Put(datasource, "DataSourceId", datasource["DataSourceId"] \o IMPORT_SUFFIX)

import_datasource(datasource, created, updated) ==
    LET original_datasource_id == datasource["DataSourceId"]
        params == DataSourceParams(datasource)
        r == create_or_update_asset("datasource", params, created, updated)
    IN  IF r.raised # "" THEN r
        ELSE [raised |-> "", calls |-> r.calls,
              value |-> [name |-> datasource["Name"],
                         arn |-> r.value["Arn"],
                         new_id |-> r.value["DataSourceId"],
                         org_id |-> original_datasource_id]]

\* the keys of a dict in the order in which the dict is iterated
RECURSIVE Keys(_)
Keys(d) ==
    IF DOMAIN d = {} THEN << >>
    ELSE LET k == CHOOSE q \in DOMAIN d : TRUE
         IN  <<k>> \o Keys(Pop(d, k))

\* table["RelationalTable"]["DataSourceArn"] =
\*     datasource_id_map[get_id_from_arn(table["RelationalTable"]["DataSourceArn"])]
\* can be carried out (no KeyError)
TableRewritable(table, datasource_id_map) ==
    /\ "RelationalTable" \in DOMAIN table
    /\ "DataSourceArn" \in DOMAIN table["RelationalTable"]
    /\ get_id_from_arn(table["RelationalTable"]["DataSourceArn"])
           \in DOMAIN datasource_id_map

\* a rewriting that leaves the reference as it is in the dump file
RewriteTable_kept(table, datasource_id_map) == table

RewriteTable(table, datasource_id_map) ==
    [table EXCEPT !["RelationalTable"]["DataSourceArn"] =
        datasource_id_map[get_id_from_arn(@)]]

\* The result carries, as "dataset", the dump's dataset after the call: the
\* tables and the RowLevelPermissionDataSet of the definition are the
\* objects of the dump, so the rewriting is seen in the dump too, and
\* what was rewritten before a KeyError stays rewritten.
prepare_dataset_definition(account_id, dataset, datasource_id_map, dataset_id_map) ==
    LET tables == dataset["PhysicalTableMap"]
        order == Keys(tables)
        bad == {i \in DOMAIN order :
                   ~TableRewritable(tables[order[i]], datasource_id_map)}
        stop == IF bad = {} THEN Len(order) + 1
                ELSE CHOOSE i \in bad : \A j \in bad : i <= j
        rewritten == [k \in DOMAIN tables |->
                        IF \E i \in 1..(stop - 1) : order[i] = k
                        THEN RewriteTable(tables[k], datasource_id_map)
                        ELSE tables[k]]
        with_tables == Put(dataset, "PhysicalTableMap", rewritten)
        rls == Get(dataset, "RowLevelPermissionDataSet", None)
        has_rls == rls # None /\ "Arn" \in DOMAIN rls
        with_rls == Put(with_tables, "RowLevelPermissionDataSet",
                        [rls EXCEPT !["Arn"] =
                            dataset_id_map[get_id_from_arn(@)]])
        definition(d) ==
            Put(Put(StripNone(Pop(d, "OutputColumns")),
                    "Name", dataset["Name"] \o IMPORT_SUFFIX),
                "AwsAccountId", account_id)
    IN  IF bad # {}
            THEN Raise("KeyError") @@ [dataset |-> with_tables]
        ELSE IF ~has_rls
            THEN Ok(definition(with_tables)) @@ [dataset |-> with_tables]
        ELSE IF get_id_from_arn(rls["Arn"]) \notin DOMAIN dataset_id_map
            THEN Raise("KeyError") @@ [dataset |-> with_tables]
        ELSE Ok(definition(with_rls)) @@ [dataset |-> with_rls]

\* what create_data_set / update_data_set answer
DataSetResponse(params) ==
    [Arn |-> Arn(params["AwsAccountId"], "dataset", params["DataSetId"]),
     DataSetId |-> params["DataSetId"],
     IngestionId |-> <<"ingestion">>,
     IngestionArn |-> Arn(params["AwsAccountId"], "dataset", params["DataSetId"])
                          \o <<"/", "ingestion", "/", "ingestion">>]

\* the parameters import_dataset calls create_data_set with
DataSetParams(dataset) ==
    Put(dataset, "DataSetId", dataset["DataSetId"] \o IMPORT_SUFFIX)

import_dataset(kind, dataset, created, updated) ==
    LET original_dataset_id == dataset["DataSetId"]
        params == DataSetParams(dataset)
        r == create_or_update_asset(kind, params, created, updated)
    IN  IF r.raised # "" THEN r
        ELSE [raised |-> "", calls |-> r.calls,
              value |-> [name |-> params["Name"],
                         arn |-> r.value["Arn"],
                         new_id |-> r.value["DataSetId"],
                         org_id |-> original_dataset_id,
                         ingestion_id |-> Get(r.value, "IngestionId", None),
                         ingestion_arn |-> Get(r.value, "IngestionArn", None)]]

\* {ds["org_id"]: ds["arn"] for ds in results}: a later entry replaces an
\* earlier one with the same org_id
IdMap(results) ==
    [id \in {results[i]["org_id"] : i \in DOMAIN results} |->
        LET last == CHOOSE i \in DOMAIN results :
                        /\ results[i]["org_id"] = id
                        /\ \A j \in DOMAIN results :
                               results[j]["org_id"] = id => j <= i
        IN  results[last]["arn"]]

\* a preparation that works on the analysis of the dump itself, not on a
\* copy: the analysis of the dump is renamed and re-identified
prepare_analysis_definition_inplace(account_id, dataset_id_map, analysis) ==
    LET has_list == "DataSetIdentifierDeclarations" \in DOMAIN analysis["Definition"]
        decls == Get(analysis["Definition"], "DataSetIdentifierDeclarations", << >>)
        bad == {i \in DOMAIN decls :
                   ~(/\ "DataSetArn" \in DOMAIN decls[i]
                     /\ get_id_from_arn(decls[i]["DataSetArn"])
                            \in DOMAIN dataset_id_map)}
        stop == IF bad = {} THEN Len(decls) + 1
                ELSE CHOOSE i \in bad : \A j \in bad : i <= j
        rewritten == [i \in DOMAIN decls |->
                        IF i < stop
                        THEN [decls[i] EXCEPT !["DataSetArn"] =
                                 dataset_id_map[get_id_from_arn(@)]]
                        ELSE decls[i]]
        renamed == Put(Put(Put(analysis,
                               "Name", analysis["Name"] \o <<"-imported">>),
                           "AnalysisId", analysis["AnalysisId"] \o <<"-imported">>),
                       "AwsAccountId", account_id)
        definition == IF has_list
                      THEN [renamed EXCEPT
                              !["Definition"]["DataSetIdentifierDeclarations"] =
                                  rewritten]
                      ELSE renamed
    IN  IF ~has_list THEN Raise("TypeError") @@ [analysis |-> definition]
        ELSE IF bad # {} THEN Raise("KeyError") @@ [analysis |-> definition]
        ELSE Ok(definition) @@ [analysis |-> definition]

\* a preparation that works on a deep copy: the analysis of the dump keeps
\* its declarations
prepare_analysis_definition_deepcopy(account_id, dataset_id_map, analysis) ==
    LET has_list == "DataSetIdentifierDeclarations" \in DOMAIN analysis["Definition"]
        decls == Get(analysis["Definition"], "DataSetIdentifierDeclarations", << >>)
        bad == {i \in DOMAIN decls :
                   ~(/\ "DataSetArn" \in DOMAIN decls[i]
                     /\ get_id_from_arn(decls[i]["DataSetArn"])
                            \in DOMAIN dataset_id_map)}
        rewritten == [i \in DOMAIN decls |->
                        [decls[i] EXCEPT !["DataSetArn"] =
                            dataset_id_map[get_id_from_arn(@)]]]
        definition ==
            Put(Put(Put([analysis EXCEPT
                            !["Definition"]["DataSetIdentifierDeclarations"] =
                                rewritten],
                        "Name", analysis["Name"] \o <<"-imported">>),
                    "AnalysisId", analysis["AnalysisId"] \o <<"-imported">>),
                "AwsAccountId", account_id)
    IN  IF ~has_list THEN Raise("TypeError") @@ [analysis |-> analysis]
        ELSE IF bad # {} THEN Raise("KeyError") @@ [analysis |-> analysis]
        ELSE Ok(definition) @@ [analysis |-> analysis]

prepare_analysis_definition(account_id, dataset_id_map, analysis) ==
    LET target_analysis_name == analysis["Name"] \o <<"-imported">>
        target_analysis_id == analysis["AnalysisId"] \o <<"-imported">>
        has_list == "DataSetIdentifierDeclarations" \in DOMAIN analysis["Definition"]
        decls == Get(analysis["Definition"], "DataSetIdentifierDeclarations", << >>)
        rewritable(ds) == /\ "DataSetArn" \in DOMAIN ds
                          /\ get_id_from_arn(ds["DataSetArn"]) \in DOMAIN dataset_id_map
        bad == {i \in DOMAIN decls : ~rewritable(decls[i])}
        stop == IF bad = {} THEN Len(decls) + 1
                ELSE CHOOSE i \in bad : \A j \in bad : i <= j
        rewritten == [i \in DOMAIN decls |->
                        IF i < stop
                        THEN [decls[i] EXCEPT !["DataSetArn"] =
                                 dataset_id_map[get_id_from_arn(@)]]
                        ELSE decls[i]]
        after == IF has_list
                 THEN [analysis EXCEPT
                          !["Definition"]["DataSetIdentifierDeclarations"] = rewritten]
                 ELSE analysis
        definition == Put(Put(Put(after, "Name", target_analysis_name),
                              "AnalysisId", target_analysis_id),
                          "AwsAccountId", account_id)
    IN  IF ~has_list THEN Raise("TypeError") @@ [analysis |-> after]
        ELSE IF bad # {} THEN Raise("KeyError") @@ [analysis |-> after]
        ELSE Ok(definition) @@ [analysis |-> after]

\* what create_analysis / update_analysis answer
AnalysisResponse(params) ==
    [Arn |-> Arn(params["AwsAccountId"], "analysis", params["AnalysisId"]),
     AnalysisId |-> params["AnalysisId"]]

import_analysis(analysis, created, updated) ==
    LET r == create_or_update_asset("analysis", analysis, created, updated)
    IN  IF r.raised # "" THEN r
        ELSE [raised |-> "", calls |-> r.calls,
              value |-> [name |-> analysis["Name"],
                         arn |-> r.value["Arn"],
                         id |-> r.value["AnalysisId"]]]

\* the version numbers a dashboard of the target account can get
MaxVersion == 2

\* int(s) for the decimal strings the model uses
ParseInt(s) ==
    IF \E n \in 0..MaxVersion : s = <<ToString(n)>>
    THEN Ok(CHOOSE n \in 0..MaxVersion : s = <<ToString(n)>>)
    ELSE Raise("ValueError")

\* a version that is 1 whatever the locator says
get_dashboard_version_first(version_arn) == Ok(1)

get_dashboard_version(version_arn) ==
    LET parts == Split(version_arn, "/") IN ParseInt(parts[Len(parts)])

DashboardPublishOptions ==
    [AdHocFilteringOption |-> [AvailabilityStatus |-> "DISABLED"],
     ExportToCSVOption |-> [AvailabilityStatus |-> "ENABLED"],
     SheetControlsOption |-> [VisibilityState |-> "COLLAPSED"]]

DashboardPermissions ==
    <<[Principal |-> "group/default/Reporting_management",
       Actions |-> "read"],
      [Principal |-> "user/default/dmitrii.kharitonov+dev@vindow.com",
       Actions |-> "own"]>>

prepare_dashboard_definition(account_id, analysis) ==
    LET id == analysis["AnalysisId"] \o <<"_dashboard">>
        name == analysis["Name"] \o <<"_dashboard">>
        definition == Pop(Pop(analysis, "AnalysisId"), "Name")
    IN  Put(Put(Put(Put(Put(definition, "AwsAccountId", account_id),
                        "Name", name),
                    "DashboardId", id),
                "DashboardPublishOptions", DashboardPublishOptions),
            "Permissions", DashboardPermissions)

\* what create_dashboard / update_dashboard answer, for a version number
DashboardResponse(params, version) ==
    [Arn |-> Arn(params["AwsAccountId"], "dashboard", params["DashboardId"]),
     VersionArn |-> Arn(params["AwsAccountId"], "dashboard", params["DashboardId"])
                        \o <<"/", "version", "/", ToString(version)>>,
     DashboardId |-> params["DashboardId"]]

\* published: what update_dashboard_published_version does
import_dashboard(account_id, dashboard, created, updated, published) ==
    LET r == create_or_update_asset("dashboard", dashboard, created, updated)
        version == get_dashboard_version(r.value["VersionArn"])
        publish == Call("publish", "publish",
                        [AwsAccountId |-> account_id,
                         DashboardId |-> r.value["DashboardId"],
                         VersionNumber |-> version.value], published)
    IN  IF r.raised # "" THEN r
        ELSE IF version.raised # "" THEN version @@ [calls |-> r.calls]
        ELSE IF published.raised # ""
            THEN Raise(published.raised) @@ [calls |-> Append(r.calls, publish)]
        ELSE IF "Status" \notin DOMAIN published.value
            THEN Raise("KeyError") @@ [calls |-> Append(r.calls, publish)]
        ELSE [raised |-> "", calls |-> Append(r.calls, publish),
              value |-> [id |-> r.value["DashboardId"],
                         arn |-> r.value["Arn"],
                         version |-> version.value,
                         publish_status |-> published.value["Status"]]]

\* an order that deals with the analysis datasets before the security datasets
ImportOrder_datasetsFirst ==
    <<"datasources", "analysis_datasets", "security_datasets", "analysis",
      "dashboard", "return">>

\* import_dump deals with the sections of the dump in this order
ImportOrder ==
    <<"datasources", "security_datasets", "analysis_datasets", "analysis",
      "dashboard", "return">>

After(phase) ==
    ImportOrder[1 + CHOOSE i \in DOMAIN ImportOrder : ImportOrder[i] = phase]

(***************************************************************************)
(* The dump files that "put" is given                                      *)
(***************************************************************************)
Sections == {"analysis", "analysis_datasets", "security_datasets", "datasources"}

DumpDataSet(id, tables, rls, permissions) ==
    dump_dataset(DataSetDefinition(SourceAccount, id, tables, rls), permissions)

\* Dumps with all four sections: up to MaxDataSources data sources, the
\* rules dataset (or, in one variant, the first dataset, which is then in
\* both lists) as the only security dataset, up to two analysis datasets
\* (the first two datasets, each with no row-level security or with that of
\* the other one or of the rules dataset), and an analysis that declares
\* the analysis datasets and, in one variant, the rules dataset as well.
\* The Permissions of a dump are all present or all null.
CompleteDumps ==
    LET Sources(perm) ==
            {[j \in 1..n |-> dump_data_source(
                 DataSourceDefinition(SourceAccount, DataSourceIdOf(j)), perm)] :
                n \in 0..MaxDataSources}
        Security(perm) ==
            {<< >>} \cup {<<DumpDataSet(RulesDataSetId, t, None, perm)>> :
                             t \in PhysicalTableMaps(SourceAccount)}
                \cup {<<DumpDataSet(DataSetIdOf(1),
                           [t1 |-> RelationalTable(SourceAccount, 1)],
                           None, perm)>>}
        DataSet(i, perm) ==
            {DumpDataSet(DataSetIdOf(i), t, r, perm) :
                t \in PhysicalTableMaps(SourceAccount),
                r \in {None, DataSetIdOf(3 - i), RulesDataSetId}}
        Analysis(perm) ==
            {<< >>} \cup {<<a>> : a \in DataSet(1, perm)}
                \cup {<<a, b>> : a \in DataSet(1, perm), b \in DataSet(2, perm)}
        Declared(datasets, extra) ==
            [i \in DOMAIN datasets |-> Declaration(datasets[i]["DataSetId"])]
                \o extra
        Dumps(perm, extra) ==
            {[analysis |-> dump_analysis(
                  AnalysisDefinition([DataSetIdentifierDeclarations |->
                                          Declared(datasets, extra),
                                      Sheets |-> <<"sheet">>]), perm),
              analysis_datasets |-> datasets,
              security_datasets |-> security,
              datasources |-> sources] :
                sources \in Sources(perm),
                security \in Security(perm),
                datasets \in Analysis(perm)}
    IN  Dumps(Grants, << >>) \cup Dumps(None, << >>)
            \cup Dumps(Grants, <<Declaration(RulesDataSetId)>>)

\* Dumps that lack one of the sections.
PartialDumps ==
    {Pop(dump, section) :
        dump \in {d \in CompleteDumps : d["analysis_datasets"] = << >>},
        section \in Sections}

DumpFiles == CompleteDumps \cup PartialDumps

(***************************************************************************)
(* State                                                                   *)
(***************************************************************************)
VARIABLES
    command,        \* "get" (export_cli) or "put" (import_cli)
    pc,             \* where the command is
    raised,         \* the exception that is propagating, "" if none
    source,         \* the source account
    args,           \* the arguments of get_dump / import_dump
    \* locals of get_dump
    analysis_definition, analysis_permissions, analysis_dataset_ids,
    analysis_dataset_definitions, rls_dataset_ids, rls_dataset_definitions,
    datasource_ids, datasource_definitions,
    todo,           \* the identifiers a running comprehension has not reached
    describe_log,   \* the describe calls issued so far: <<operation, id>>
    dump_file,      \* the dump written by export_cli, None before
    \* import_cli and import_dump
    loaded,         \* the dump file as json.load returned it
    assets_dump,    \* the same object, as the import has changed it since
    datasources, datasource_id_map, security_datasets, dataset_id_map,
    analysis_datasets, analysis, dashboard,
    step,           \* the part of import_dump that ran last
    call_order,     \* the kind of every call issued to the target, in order
    last_calls,     \* the calls that the last step issued, with parameters
    refused,        \* some call to the target did not answer with success
    target,         \* the objects the run has created or updated in the target
    probe           \* a function applied on its own: its argument and result

exportVars == <<analysis_definition, analysis_permissions, analysis_dataset_ids,
                analysis_dataset_definitions, rls_dataset_ids,
                rls_dataset_definitions, datasource_ids, datasource_definitions,
                todo, describe_log, dump_file>>

importVars == <<loaded, assets_dump, datasources, datasource_id_map,
                security_datasets, dataset_id_map, analysis_datasets, analysis,
                dashboard, step, call_order, last_calls, refused, target>>

vars == <<command, pc, raised, source, args, exportVars, importVars, probe>>

NoSource == [analysis |-> None, datasets |-> None]

ExportIdle ==
    /\ analysis_definition = None /\ analysis_permissions = None
    /\ analysis_dataset_ids = {} /\ analysis_dataset_definitions = << >>
    /\ rls_dataset_ids = {} /\ rls_dataset_definitions = << >>
    /\ datasource_ids = {} /\ datasource_definitions = << >>
    /\ todo = {} /\ describe_log = << >>

ImportIdle ==
    /\ loaded = None /\ assets_dump = None
    /\ datasources = << >> /\ datasource_id_map = << >>
    /\ security_datasets = << >> /\ dataset_id_map = << >>
    /\ analysis_datasets = << >> /\ analysis = None /\ dashboard = None
    /\ step = "" /\ call_order = << >> /\ last_calls = << >>
    /\ refused = FALSE /\ target = {}

\* the command "get <analysis-id>" is started against some source account
InitGet ==
    /\ command = "get" /\ pc = "export_cli" /\ raised = ""
    /\ source \in SourceAccounts
    /\ args = None
    /\ ExportIdle /\ ImportIdle
    /\ dump_file = None
    /\ probe = None

\* the command "put <dump-file>" is started on some dump file
InitPut ==
    /\ command = "put" /\ pc = "import_cli" /\ raised = ""
    /\ source = NoSource
    /\ args = None
    /\ ExportIdle /\ ImportIdle
    /\ dump_file \in DumpFiles
    /\ probe = None

Init == InitGet \/ InitPut

Throw(e) == pc' = "raised" /\ raised' = e

(***************************************************************************)
(* export_command.py and export_assets.get_dump                            *)
(***************************************************************************)
\* export_cli up to the call of get_dump, and the argument checks of
\* get_dump.  get_aws_account_id returns response.get("Account", None).
ExportCli ==
    /\ command = "get" /\ pc = "export_cli"
    /\ \E account \in {SourceAccount, None} :
         /\ args' = [account_id |-> account, qs_client |-> <<"quicksight">>,
                     analysis_id |-> AnalysisId]
         /\ IF account = None THEN Throw("ValueError")
            ELSE pc' = "get_dump" /\ raised' = raised
    /\ UNCHANGED <<probe, importVars, command, source, exportVars>>

\* get_analysis_definition, get_analysis_permissions, get_analysis_dataset_ids
GetAnalysis ==
    /\ command = "get" /\ pc = "get_dump"
    /\ \E o1 \in ProviderOutcomes(source.analysis),
          o2 \in ProviderOutcomes([AnalysisId |-> args.analysis_id,
                                   Permissions |-> Grants]) :
         LET d == describe_asset(o1, NoLookup)
             p == describe_asset(o2, "Permissions")
             ids == get_analysis_dataset_ids(d.value)
         IN  IF d.raised # "" THEN
                 /\ Throw(d.raised)
                 /\ describe_log' = Append(describe_log,
                        <<"describe_analysis_definition", args.analysis_id>>)
                 /\ UNCHANGED <<analysis_definition, analysis_permissions,
                                analysis_dataset_ids, todo>>
             ELSE
                 /\ describe_log' = describe_log \o
                        << <<"describe_analysis_definition", args.analysis_id>>,
                           <<"describe_analysis_permissions", args.analysis_id>> >>
                 /\ analysis_definition' = d.value
                 /\ IF p.raised # "" THEN
                        /\ Throw(p.raised)
                        /\ UNCHANGED <<analysis_permissions,
                                       analysis_dataset_ids, todo>>
                    ELSE
                        /\ analysis_permissions' = p.value
                        /\ IF ids.raised # "" THEN
                               /\ Throw(ids.raised)
                               /\ UNCHANGED <<analysis_dataset_ids, todo>>
                           ELSE
                               /\ analysis_dataset_ids' = ids.value
                               /\ todo' = ids.value
                               /\ pc' = "analysis_datasets"
                               /\ raised' = raised
    /\ UNCHANGED <<probe, importVars, command, source, args, analysis_dataset_definitions,
                   rls_dataset_ids, rls_dataset_definitions, datasource_ids,
                   datasource_definitions, dump_file>>

\* One iteration of a comprehension that fetches an asset's definition and
\* permissions: the outcome of the two describe calls.  A Python set is
\* iterated in no particular order.
Fetch(o1, o2, member) ==
    LET d == describe_asset(o1, member)
        p == describe_asset(o2, "Permissions")
    IN  IF d.raised # "" THEN d
        ELSE IF p.raised # "" THEN p
        ELSE Ok([definition |-> d.value, permissions |-> p.value])

\* the two dataset comprehensions of get_dump (analysis datasets, then
\* row-level-security datasets), one dataset at a time
FetchDataSet ==
    /\ command = "get" /\ pc \in {"analysis_datasets", "rls_datasets"}
    /\ \E id \in todo :
       \E o1 \in ProviderOutcomes([DataSet |-> source.datasets[id]]),
          o2 \in ProviderOutcomes([DataSetId |-> id, Permissions |-> Grants]) :
         LET row == Fetch(o1, o2, "DataSet")
         IN  /\ describe_log' = describe_log \o
                    (<< <<"describe_data_set", id>> >> \o
                     IF describe_asset(o1, "DataSet").raised = ""
                     THEN << <<"describe_data_set_permissions", id>> >> ELSE << >>)
             /\ IF row.raised # "" THEN
                    /\ Throw(row.raised)
                    /\ UNCHANGED <<todo, analysis_dataset_definitions,
                                   rls_dataset_definitions>>
                ELSE
                    /\ todo' = todo \ {id}
                    /\ UNCHANGED <<pc, raised>>
                    /\ IF pc = "analysis_datasets"
                       THEN /\ analysis_dataset_definitions' =
                                   Append(analysis_dataset_definitions, row.value)
                            /\ UNCHANGED rls_dataset_definitions
                       ELSE /\ rls_dataset_definitions' =
                                   Append(rls_dataset_definitions, row.value)
                            /\ UNCHANGED analysis_dataset_definitions
    /\ UNCHANGED <<probe, importVars, command, source, args, analysis_definition,
                   analysis_permissions, analysis_dataset_ids, rls_dataset_ids,
                   datasource_ids, datasource_definitions, dump_file>>

\* rls_dataset_ids = get_rls_dataset_ids(analysis_dataset_definitions): the
\* argument is the list of {"definition", "permissions"} rows
GetRlsDatasetIds ==
    /\ command = "get" /\ pc = "analysis_datasets" /\ todo = {}
    /\ LET ids == get_rls_dataset_ids(analysis_dataset_definitions)
       IN  IF ids.raised # "" THEN
               Throw(ids.raised) /\ UNCHANGED <<rls_dataset_ids, todo>>
           ELSE /\ rls_dataset_ids' = ids.value
                /\ todo' = ids.value
                /\ pc' = "rls_datasets" /\ raised' = raised
    /\ UNCHANGED <<probe, importVars, command, source, args, analysis_definition,
                   analysis_permissions, analysis_dataset_ids,
                   analysis_dataset_definitions, rls_dataset_definitions,
                   datasource_ids, datasource_definitions, describe_log,
                   dump_file>>

\* datasource_ids = get_datasource_ids(row["definition"] for row in
\*                     analysis_dataset_definitions + rls_dataset_definitions)
GetDatasourceIds ==
    /\ command = "get" /\ pc = "rls_datasets" /\ todo = {}
    /\ LET rows == analysis_dataset_definitions \o rls_dataset_definitions
           ids == get_datasource_ids([i \in DOMAIN rows |-> rows[i]["definition"]])
       IN  IF ids.raised # "" THEN
               Throw(ids.raised) /\ UNCHANGED <<datasource_ids, todo>>
           ELSE /\ datasource_ids' = ids.value
                /\ todo' = ids.value
                /\ pc' = "datasources" /\ raised' = raised
    /\ UNCHANGED <<probe, importVars, command, source, args, analysis_definition,
                   analysis_permissions, analysis_dataset_ids,
                   analysis_dataset_definitions, rls_dataset_ids,
                   rls_dataset_definitions, datasource_definitions,
                   describe_log, dump_file>>

\* the data-source comprehension of get_dump, one data source at a time
FetchDataSource ==
    /\ command = "get" /\ pc = "datasources"
    /\ \E id \in todo :
       \E o1 \in ProviderOutcomes(
                    [DataSource |-> DataSourceDefinition(SourceAccount, id)]),
          o2 \in ProviderOutcomes([DataSourceId |-> id, Permissions |-> Grants]) :
         LET row == Fetch(o1, o2, "DataSource")
         IN  /\ describe_log' = describe_log \o
                    (<< <<"describe_data_source", id>> >> \o
                     IF describe_asset(o1, "DataSource").raised = ""
                     THEN << <<"describe_data_source_permissions", id>> >>
                     ELSE << >>)
             /\ IF row.raised # "" THEN
                    Throw(row.raised)
                    /\ UNCHANGED <<todo, datasource_definitions>>
                ELSE
                    /\ todo' = todo \ {id}
                    /\ datasource_definitions' =
                           Append(datasource_definitions, row.value)
                    /\ UNCHANGED <<pc, raised>>
    /\ UNCHANGED <<probe, importVars, command, source, args, analysis_definition,
                   analysis_permissions, analysis_dataset_ids,
                   analysis_dataset_definitions, rls_dataset_ids,
                   rls_dataset_definitions, datasource_ids, dump_file>>

\* the value get_dump returns
Dump ==
    [analysis |-> dump_analysis(analysis_definition, analysis_permissions),
     analysis_datasets |->
        [i \in DOMAIN analysis_dataset_definitions |->
            dump_dataset(analysis_dataset_definitions[i]["definition"],
                         analysis_dataset_definitions[i]["permissions"])],
     security_datasets |->
        [i \in DOMAIN rls_dataset_definitions |->
            dump_dataset(rls_dataset_definitions[i]["definition"],
                         rls_dataset_definitions[i]["permissions"])],
     datasources |->
        [i \in DOMAIN datasource_definitions |->
            dump_data_source(datasource_definitions[i]["definition"],
                             datasource_definitions[i]["permissions"])]]

\* get_dump returns and export_cli writes <analysis_id>.json
ExportCliWrite ==
    /\ command = "get" /\ pc = "datasources" /\ todo = {}
    /\ dump_file' = Dump
    /\ pc' = "exported"
    /\ UNCHANGED <<probe, importVars, command, raised, source, args, analysis_definition,
                   analysis_permissions, analysis_dataset_ids,
                   analysis_dataset_definitions, rls_dataset_ids,
                   rls_dataset_definitions, datasource_ids,
                   datasource_definitions, todo, describe_log>>

\* export_cli: "except ValueError" prints and returns; any other exception
\* leaves export_cli
ExportCliExcept ==
    /\ command = "get" /\ pc = "raised"
    /\ pc' = IF raised = "ValueError" THEN "printed" ELSE "escaped"
    /\ UNCHANGED <<probe, importVars, command, raised, source, args, exportVars>>

(***************************************************************************)
(* import_command.py and import_assets.import_dump                         *)
(***************************************************************************)
\* the kinds of the calls, for the call log
Kinds(calls) == [i \in DOMAIN calls |-> calls[i].kind]

\* the object of the target account a create or update call is about
AssetOf(call) ==
    CASE call.kind = "datasource" -> <<"datasource", call.params["DataSourceId"]>>
      [] call.kind \in {"security_dataset", "analysis_dataset"} ->
             <<"dataset", call.params["DataSetId"]>>
      [] call.kind = "analysis" -> <<"analysis", call.params["AnalysisId"]>>
      [] call.kind = "dashboard" -> <<"dashboard", call.params["DashboardId"]>>

\* the objects that the calls have created or updated: those of the create
\* and update calls that were answered with a status of success
Written(calls) ==
    {AssetOf(calls[i]) :
        i \in {j \in DOMAIN calls : /\ calls[j].api \in {"create", "update"}
                                    /\ calls[j].outcome = "answered"
                                    /\ calls[j].status \in 200..299}}

\* some call of a step was not answered with a status of success
Refused(r) == r.raised # "" \/ \E i \in DOMAIN r.calls : r.calls[i].outcome # "answered"

\* import_cli up to the call of import_dump: json.load of the dump file,
\* the session and the account of the target
ImportCli ==
    /\ command = "put" /\ pc = "import_cli"
    /\ loaded' = dump_file
    /\ assets_dump' = dump_file
    /\ args' = [account_id |-> TargetAccount, qs_client |-> <<"quicksight">>]
    /\ pc' = "import_dump"
    /\ UNCHANGED <<probe, exportVars, command, raised, source, datasources,
                   datasource_id_map, security_datasets, dataset_id_map,
                   analysis_datasets, analysis, dashboard, step, call_order,
                   last_calls, refused, target>>

\* "put" is run on the file that "get" has written
PutAfterGet ==
    /\ command = "get" /\ pc = "exported"
    /\ command' = "put"
    /\ pc' = "import_cli"
    /\ UNCHANGED <<probe, exportVars, importVars, raised, source, args>>

\* the checks at the head of import_dump
ImportDumpCheck ==
    /\ command = "put" /\ pc = "import_dump"
    /\ step' = "check"
    /\ IF \/ "datasources" \notin DOMAIN assets_dump
          \/ "analysis_datasets" \notin DOMAIN assets_dump
          \/ "analysis" \notin DOMAIN assets_dump
       THEN Throw("ValueError")
       ELSE pc' = ImportOrder[1] /\ raised' = raised
    /\ UNCHANGED <<probe, exportVars, command, source, args, loaded, assets_dump,
                   datasources, datasource_id_map, security_datasets,
                   dataset_id_map, analysis_datasets, analysis, dashboard,
                   call_order, last_calls, refused, target>>

\* import_datasources: one data source of the comprehension
ImportDataSource ==
    /\ command = "put" /\ pc = "datasources"
    /\ Len(datasources) < Len(assets_dump["datasources"])
    /\ step' = "datasources"
    /\ LET ds == assets_dump["datasources"][Len(datasources) + 1]
           prepared == prepare_datasource_definition(args.account_id, ds)
           answer == DataSourceResponse(DataSourceParams(prepared))
       IN  \E created \in CreateOutcomes(answer) :
           \E updated \in OutcomesIf(Exists(created), answer) :
             LET r == import_datasource(prepared, created, updated)
             IN  /\ target' = target \cup Written(r.calls)
                 /\ call_order' = call_order \o Kinds(r.calls)
                 /\ last_calls' = r.calls
                 /\ refused' = (refused \/ Refused(r))
                 /\ IF r.raised # "" THEN
                        Throw(r.raised) /\ UNCHANGED datasources
                    ELSE /\ datasources' = Append(datasources, r.value)
                         /\ UNCHANGED <<pc, raised>>
    /\ UNCHANGED <<probe, exportVars, command, source, args, loaded, assets_dump,
                   datasource_id_map, security_datasets, dataset_id_map,
                   analysis_datasets, analysis, dashboard>>

\* datasource_id_map = {...}, and the arguments of the first
\* import_datasets, among them assets_dump["security_datasets"]
MapDataSources ==
    /\ command = "put" /\ pc = "datasources"
    /\ Len(datasources) = Len(assets_dump["datasources"])
    /\ step' = "datasource_id_map"
    /\ datasource_id_map' = IdMap(datasources)
    /\ IF "security_datasets" \notin DOMAIN assets_dump
       THEN Throw("KeyError")
       ELSE pc' = After("datasources") /\ raised' = raised
    /\ last_calls' = << >>
    /\ UNCHANGED <<probe, exportVars, command, source, args, loaded, assets_dump,
                   datasources, security_datasets, dataset_id_map,
                   analysis_datasets, analysis, dashboard, call_order, refused, target>>

\* a dataset_id_map argument that grows with the results of step 3
PassedDatasetIdMap_growing ==
    IF pc = "security_datasets" THEN << >>
    ELSE IdMap(analysis_datasets) @@ dataset_id_map

\* the dataset_id_map argument of import_datasets: {} for the security
\* datasets, the map of the security datasets for the analysis datasets
PassedDatasetIdMap ==
    IF pc = "security_datasets" THEN << >> ELSE dataset_id_map

\* import_datasets: one dataset of the comprehension, for the security
\* datasets and for the analysis datasets
ImportDataSet ==
    /\ command = "put" /\ pc \in {"security_datasets", "analysis_datasets"}
    /\ LET security == (pc = "security_datasets")
           results == IF security THEN security_datasets ELSE analysis_datasets
           id_map == PassedDatasetIdMap
           kind == IF security THEN "security_dataset" ELSE "analysis_dataset"
           i == Len(results) + 1
       IN  /\ i <= Len(assets_dump[pc])
           /\ step' = pc
           /\ LET p == prepare_dataset_definition(args.account_id,
                            assets_dump[pc][i], datasource_id_map, id_map)
              IN  /\ assets_dump' = [assets_dump EXCEPT ![pc][i] = p.dataset]
                  /\ IF p.raised # "" THEN
                         /\ Throw(p.raised)
                         /\ last_calls' = << >>
                         /\ UNCHANGED <<security_datasets, analysis_datasets,
                                        call_order, refused, target>>
                     ELSE
                       \E created \in CreateOutcomes(
                                         DataSetResponse(DataSetParams(p.value))) :
                       \E updated \in OutcomesIf(Exists(created),
                                         DataSetResponse(DataSetParams(p.value))) :
                         LET r == import_dataset(kind, p.value, created, updated)
                         IN  /\ target' = target \cup Written(r.calls)
                             /\ call_order' = call_order \o Kinds(r.calls)
                             /\ last_calls' = r.calls
                             /\ refused' = (refused \/ Refused(r))
                             /\ IF r.raised # "" THEN
                                    /\ Throw(r.raised)
                                    /\ UNCHANGED <<security_datasets,
                                                   analysis_datasets>>
                                ELSE
                                    /\ UNCHANGED <<pc, raised>>
                                    /\ IF security
                                       THEN /\ security_datasets' =
                                                  Append(security_datasets, r.value)
                                            /\ UNCHANGED analysis_datasets
                                       ELSE /\ analysis_datasets' =
                                                  Append(analysis_datasets, r.value)
                                            /\ UNCHANGED security_datasets
    /\ UNCHANGED <<probe, exportVars, command, source, args, loaded, datasources,
                   datasource_id_map, dataset_id_map, analysis, dashboard>>

\* dataset_id_map = {ds["org_id"]: ds["arn"] for ds in security_datasets}
MapSecurityDataSets ==
    /\ command = "put" /\ pc = "security_datasets"
    /\ Len(security_datasets) = Len(assets_dump["security_datasets"])
    /\ step' = "dataset_id_map"
    /\ dataset_id_map' = IdMap(security_datasets)
    /\ pc' = After("security_datasets")
    /\ last_calls' = << >>
    /\ UNCHANGED <<probe, exportVars, command, raised, source, args, loaded,
                   assets_dump, datasources, datasource_id_map,
                   security_datasets, analysis_datasets, analysis, dashboard,
                   call_order, refused, target>>

\* a loop that keeps the results of step 3 only
ExtendedIdMap_replaced(map, results) == IdMap(results)

\* for ds in results: map[ds["org_id"]] = ds["arn"]
ExtendedIdMap(map, results) == IdMap(results) @@ map

\* for ds in analysis_datasets: dataset_id_map[ds["org_id"]] = ds["arn"]
MapAnalysisDataSets ==
    /\ command = "put" /\ pc = "analysis_datasets"
    /\ Len(analysis_datasets) = Len(assets_dump["analysis_datasets"])
    /\ step' = "dataset_id_map"
    /\ dataset_id_map' = ExtendedIdMap(dataset_id_map, analysis_datasets)
    /\ pc' = After("analysis_datasets")
    /\ last_calls' = << >>
    /\ UNCHANGED <<probe, exportVars, command, raised, source, args, loaded,
                   assets_dump, datasources, datasource_id_map,
                   security_datasets, analysis_datasets, analysis, dashboard,
                   call_order, refused, target>>

\* prepare_analysis_definition and import_analysis
ImportAnalysis ==
    /\ command = "put" /\ pc = "analysis"
    /\ step' = "analysis"
    /\ LET p == prepare_analysis_definition(args.account_id, dataset_id_map,
                                            assets_dump["analysis"])
       IN  /\ assets_dump' = [assets_dump EXCEPT !["analysis"] = p.analysis]
           /\ IF p.raised # "" THEN
                  /\ Throw(p.raised)
                  /\ last_calls' = << >>
                  /\ UNCHANGED <<analysis, call_order, refused, target>>
              ELSE
                \E created \in CreateOutcomes(AnalysisResponse(p.value)) :
                \E updated \in OutcomesIf(Exists(created),
                                          AnalysisResponse(p.value)) :
                  LET r == import_analysis(p.value, created, updated)
                  IN  /\ target' = target \cup Written(r.calls)
                      /\ call_order' = call_order \o Kinds(r.calls)
                      /\ last_calls' = r.calls
                      /\ refused' = (refused \/ Refused(r))
                      /\ IF r.raised # "" THEN
                             Throw(r.raised) /\ UNCHANGED analysis
                         ELSE /\ analysis' = r.value
                              /\ pc' = After("analysis")
                              /\ raised' = raised
    /\ UNCHANGED <<probe, exportVars, command, source, args, loaded, datasources,
                   datasource_id_map, security_datasets, dataset_id_map,
                   analysis_datasets, dashboard>>

\* prepare_dashboard_definition and import_dashboard
ImportDashboard ==
    /\ command = "put" /\ pc = "dashboard"
    /\ step' = "dashboard"
    /\ LET d == prepare_dashboard_definition(args.account_id,
                                             assets_dump["analysis"])
       IN  \E version \in 1..MaxVersion :
           \E created \in CreateOutcomes(DashboardResponse(d, version)) :
           \E updated \in OutcomesIf(Exists(created),
                                     DashboardResponse(d, version)) :
           \E published \in OutcomesIf(
                  create_or_update_asset("dashboard", d, created, updated).raised = "",
                  [DashboardId |-> d["DashboardId"]]) :
             LET r == import_dashboard(args.account_id, d, created, updated,
                                       published)
             IN  /\ target' = target \cup Written(r.calls)
                 /\ call_order' = call_order \o Kinds(r.calls)
                 /\ last_calls' = r.calls
                 /\ refused' = (refused \/ Refused(r) \/
                                r.value["publish_status"] \notin 200..299)
                 /\ IF r.raised # "" THEN
                        Throw(r.raised) /\ UNCHANGED dashboard
                    ELSE /\ dashboard' = r.value
                         /\ pc' = After("dashboard")
                         /\ raised' = raised
    /\ UNCHANGED <<probe, exportVars, command, source, args, loaded, assets_dump,
                   datasources, datasource_id_map, security_datasets,
                   dataset_id_map, analysis_datasets, analysis>>

\* import_dump returns and import_cli prints what was imported
ImportCliPrint ==
    /\ command = "put" /\ pc = "return"
    /\ pc' = "imported"
    /\ UNCHANGED <<probe, exportVars, importVars, command, raised, source, args>>

\* import_cli: "except ValueError" prints and returns; any other exception
\* leaves import_cli
ImportCliExcept ==
    /\ command = "put" /\ pc = "raised"
    /\ pc' = IF raised = "ValueError" THEN "printed" ELSE "escaped"
    /\ UNCHANGED <<probe, exportVars, importVars, command, raised, source, args>>

Next ==
    \/ ExportCli \/ GetAnalysis \/ FetchDataSet \/ GetRlsDatasetIds
    \/ GetDatasourceIds \/ FetchDataSource \/ ExportCliWrite
    \/ ExportCliExcept
    \/ ImportCli \/ PutAfterGet \/ ImportDumpCheck \/ ImportDataSource
    \/ MapDataSources \/ ImportDataSet \/ MapSecurityDataSets
    \/ MapAnalysisDataSets \/ ImportAnalysis \/ ImportDashboard
    \/ ImportCliPrint \/ ImportCliExcept

Spec == Init /\ [][Next]_vars

(***************************************************************************)
(* The extractors of export_assets.py applied on their own.                *)
(***************************************************************************)
\* dataset definitions as describe_data_set answers them, with and without
\* the row-level-security reference and the physical table map
ExtractorDataSets ==
    LET full == {DataSetDefinition(SourceAccount, DataSetIdOf(1), tables, rls) :
                    tables \in PhysicalTableMaps(SourceAccount),
                    rls \in {None, RulesDataSetId}}
    IN  full \cup {Pop(ds, "PhysicalTableMap") : ds \in full}

DefinitionLists ==
    {<< >>} \cup {<<a>> : a \in ExtractorDataSets}
            \cup {<<a, b>> : a \in ExtractorDataSets, b \in ExtractorDataSets}

Applied(fn, arg, result) == [fn |-> fn, arg |-> arg, result |-> result]

InitExtract ==
    /\ command = "extract" /\ pc = "idle" /\ raised = ""
    /\ source = NoSource
    /\ args = None
    /\ ExportIdle /\ ImportIdle
    /\ dump_file = None
    /\ probe = None

ApplyGetAnalysisDatasetIds ==
    /\ command = "extract" /\ probe = None
    /\ \E analysis_def \in AnalysisDefinitions :
         probe' = Applied("get_analysis_dataset_ids", analysis_def,
                          get_analysis_dataset_ids(analysis_def))
    /\ UNCHANGED <<exportVars, importVars, command, pc, raised, source, args>>

ApplyGetRlsDatasetIds ==
    /\ command = "extract" /\ probe = None
    /\ \E dataset_definitions \in DefinitionLists :
         probe' = Applied("get_rls_dataset_ids", dataset_definitions,
                          get_rls_dataset_ids(dataset_definitions))
    /\ UNCHANGED <<exportVars, importVars, command, pc, raised, source, args>>

ApplyGetDatasourceIds ==
    /\ command = "extract" /\ probe = None
    /\ \E dataset_definitions \in DefinitionLists :
         probe' = Applied("get_datasource_ids", dataset_definitions,
                          get_datasource_ids(dataset_definitions))
    /\ UNCHANGED <<exportVars, importVars, command, pc, raised, source, args>>

(***************************************************************************)
(* The functions of essentials.py applied on their own.                    *)
(***************************************************************************)
\* a search that does not look at the status of the response
find_assets_unchecked(outcome, lookup_field) ==
    IF outcome.raised # "" THEN outcome
    ELSE IF Len(Get(outcome.value, lookup_field, << >>)) = 0
        THEN Raise("ValueError")
    ELSE Ok(outcome.value[lookup_field])

\* find_assets, given what search_fn(**params) did
find_assets(outcome, lookup_field) ==
    IF outcome.raised # "" THEN outcome
    ELSE LET response == outcome.value
             status == Get(response, "Status", 0)
         IN  IF status < 200 \/ status >= 300 THEN Raise("ValueError")
             ELSE IF Len(Get(response, lookup_field, << >>)) = 0
                 THEN Raise("ValueError")
             ELSE Ok(response[lookup_field])

find_asset_ids(outcome, lookup_field, id_key) ==
    LET found == find_assets(outcome, lookup_field)
    IN  IF found.raised # "" THEN found
        ELSE Ok([i \in DOMAIN found.value |-> Get(found.value[i], id_key, None)])

\* a lookup that returns the first match, however many there are
find_asset_id_first(outcome, lookup_field, id_key) ==
    LET ids == find_asset_ids(outcome, lookup_field, id_key)
    IN  IF ids.raised # "" THEN ids ELSE Ok(ids.value[1])

find_asset_id(outcome, lookup_field, id_key) ==
    LET ids == find_asset_ids(outcome, lookup_field, id_key)
    IN  IF ids.raised # "" THEN ids
        ELSE IF Len(ids.value) > 1 THEN Raise("ValueError")
        ELSE Ok(ids.value[1])

\* the statuses of the responses the functions are applied to
ProbeStatuses == {199, 200, 299, 300, 404}

\* what a call can do: raise, answer without a Status, or with one
ProbeOutcomes(payload) ==
    {ClientError("AccessDeniedException"), Ok(payload)}
        \cup {Ok(Put(payload, "Status", st)) : st \in ProbeStatuses}

\* the response of a describe call, less its Status
DescribePayload == [Asset |-> [Name |-> <<"Asset1">>, Id |-> <<"1">>]]

\* the responses of a search, less their Status: no list of matches, or a
\* list of no, one or two matches
SearchPayloads ==
    LET Asset(i) == [Name |-> <<"Asset", ToString(i)>>, Id |-> <<ToString(i)>>]
    IN  {[RequestId |-> <<"request">>]}
            \cup {[Assets |-> matches] :
                     matches \in {<< >>, <<Asset(1)>>, <<Asset(1), Asset(2)>>,
                                  <<Asset(2), Asset(1)>>}}

ApplyDescribeAsset ==
    /\ command = "extract" /\ probe = None
    /\ \E outcome \in ProbeOutcomes(DescribePayload) :
       \E lookup_field \in {NoLookup, "Asset", "Permissions"} :
         probe' = Applied("describe_asset",
                          [outcome |-> outcome, lookup_field |-> lookup_field],
                          describe_asset(outcome, lookup_field))
    /\ UNCHANGED <<exportVars, importVars, command, pc, raised, source, args>>

\* find_assets, find_asset_ids and find_asset_id
ApplyFind ==
    /\ command = "extract" /\ probe = None
    /\ \E payload \in SearchPayloads :
       \E outcome \in ProbeOutcomes(payload) :
         LET arg == [outcome |-> outcome, lookup_field |-> "Assets",
                     id_key |-> "Id"]
         IN  probe' \in
               {Applied("find_assets", arg, find_assets(outcome, "Assets")),
                Applied("find_asset_ids", arg,
                        find_asset_ids(outcome, "Assets", "Id")),
                Applied("find_asset_id", arg,
                        find_asset_id(outcome, "Assets", "Id"))}
    /\ UNCHANGED <<exportVars, importVars, command, pc, raised, source, args>>

\* the parameters create_or_update_asset is applied to
ProbeParams ==
    LET full == prepare_datasource_definition(TargetAccount,
                    dump_data_source(DataSourceDefinition(SourceAccount,
                                                          DataSourceIdOf(1)),
                                     Grants))
    IN  {full, Pop(full, "Type")}

ApplyCreateOrUpdateAsset ==
    /\ command = "extract" /\ probe = None
    /\ \E params \in ProbeParams :
       \E created \in ProbeOutcomes(DataSourceResponse(params))
                         \cup {ClientError("ResourceExistsException")} :
       \E updated \in IF Exists(created)
                      THEN ProbeOutcomes(DataSourceResponse(params))
                      ELSE {Ok(DataSourceResponse(params))} :
         probe' = Applied("create_or_update_asset",
                          [params |-> params, created |-> created,
                           updated |-> updated],
                          create_or_update_asset("datasource", params,
                                                 created, updated))
    /\ UNCHANGED <<exportVars, importVars, command, pc, raised, source, args>>

\* scheme:partition:service:region:account:kind/identifier
Locator(region, account, kind, identifier) ==
    <<"arn", ":", "aws", ":", "quicksight", ":">> \o region \o <<":">>
        \o account \o <<":", kind, "/">> \o identifier

\* locators with and without a region, of both accounts, of three kinds,
\* with identifiers of one piece and of two pieces around a "/"
Locators ==
    {Locator(region, account, kind, identifier) :
        region \in {<< >>, <<"us-east-1">>},
        account \in {SourceAccount, TargetAccount},
        kind \in {"dataset", "datasource", "analysis"},
        identifier \in {DataSetIdOf(1), DataSetIdOf(2),
                        <<"folder", "/">> \o DataSetIdOf(1)}}

\* entries of a definition list: with the locator of a dataset under
\* "Arn", or without a locator
LocatorEntries ==
    {[Identifier |-> <<"identifier">>, Arn |-> l] :
        l \in {h \in Locators : \E identifier \in {DataSetIdOf(1), DataSetIdOf(2),
                                                   <<"folder", "/">> \o DataSetIdOf(1)} :
                  h = Locator(<<"us-east-1">>, SourceAccount, "dataset", identifier)}}
        \cup {[Identifier |-> <<"identifier">>]}

\* the lists of entries get_asset_ids_from_definition is applied to
EntryLists ==
    {<< >>} \cup {<<a>> : a \in LocatorEntries}
            \cup {<<a, b>> : a \in LocatorEntries, b \in LocatorEntries}

ApplyGetIdFromArn ==
    /\ command = "extract" /\ probe = None
    /\ \E arn \in Locators :
         probe' = Applied("get_id_from_arn", arn, get_id_from_arn(arn))
    /\ UNCHANGED <<exportVars, importVars, command, pc, raised, source, args>>

ApplyGetAccountIdFromArn ==
    /\ command = "extract" /\ probe = None
    /\ \E arn \in Locators :
         probe' = Applied("get_account_id_from_arn", arn,
                          get_account_id_from_arn(arn))
    /\ UNCHANGED <<exportVars, importVars, command, pc, raised, source, args>>

ApplyGetAssetIdsFromDefinition ==
    /\ command = "extract" /\ probe = None
    /\ \E definitions \in EntryLists :
         probe' = Applied("get_asset_ids_from_definition",
                          [definitions |-> definitions, arn_key |-> "Arn"],
                          get_asset_ids_from_definition(definitions, "Arn"))
    /\ UNCHANGED <<exportVars, importVars, command, pc, raised, source, args>>

NextExtract ==
    \/ ApplyGetIdFromArn
    \/ ApplyGetAccountIdFromArn
    \/ ApplyGetAssetIdsFromDefinition
    \/ ApplyGetAnalysisDatasetIds
    \/ ApplyGetRlsDatasetIds
    \/ ApplyGetDatasourceIds
    \/ ApplyDescribeAsset
    \/ ApplyFind
    \/ ApplyCreateOrUpdateAsset

SpecExtract == InitExtract /\ [][NextExtract]_vars

(***************************************************************************)
(* Properties of the export                                                *)
(***************************************************************************)
\* the values a list of dump entries has under a key
IdsIn(entries, key) == {entries[i][key] : i \in DOMAIN entries}

\* the row-level-security datasets the entries refer to
RlsIdsIn(entries) == UNION {RlsIdOf(entries[i]) : i \in DOMAIN entries}

\* the data sources the physical tables of the entries refer to, whatever
\* the kind of the table
DataSourceIdsIn(entries) ==
    {get_id_from_arn(entries[i]["PhysicalTableMap"][t][k]["DataSourceArn"]) :
        <<i, t, k>> \in
            {<<i, t, k>> \in (DOMAIN entries) \X {"t1", "t2"}
                                \X {"RelationalTable", "CustomSql"} :
                /\ t \in DOMAIN entries[i]["PhysicalTableMap"]
                /\ k \in DOMAIN entries[i]["PhysicalTableMap"][t]}}

\* the analysis declares two datasets, exactly one of them refers to a
\* third by row-level security, and all three read one shared data source
SharedSourceScenario ==
    LET declared == DeclaredIds(source["analysis"])
        rules == UNION {RlsIdOf(source["datasets"][id]) : id \in declared}
        all == [i \in 1..MaxDataSets |-> source["datasets"][DataSetIdOf(i)]]
    IN  /\ Cardinality(declared) = 2
        /\ Cardinality({id \in declared :
                           RlsIdOf(source["datasets"][id]) # {}}) = 1
        /\ rules \cap declared = {}
        /\ DataSourceIdsIn(SelectSeq(all,
               LAMBDA ds : ds["DataSetId"] \in declared \cup rules))
             = {DataSourceIdOf(1)}

\* C1: the security_datasets of an exported bundle hold exactly one entry
\* for each distinct row-level-security dataset that the bundle's analysis
\* datasets refer to; two analysis datasets of which one refers to a third,
\* all on one data source, export as 2 / 1 / 1 entries.
C1_SecurityDatasetsExact ==
    (command = "get" /\ pc = "exported") =>
        /\ IdsIn(dump_file["security_datasets"], "DataSetId")
             = RlsIdsIn(dump_file["analysis_datasets"])
        /\ Len(dump_file["security_datasets"])
             = Cardinality(RlsIdsIn(dump_file["analysis_datasets"]))
        /\ SharedSourceScenario =>
             /\ Len(dump_file["analysis_datasets"]) = 2
             /\ Len(dump_file["security_datasets"]) = 1
             /\ Len(dump_file["datasources"]) = 1

\* C9: the datasources of an exported bundle hold exactly one entry for
\* each distinct data source that a physical table of any analysis dataset
\* or security dataset of the bundle refers to.
C9_DataSourcesExact ==
    (command = "get" /\ pc = "exported") =>
        LET referenced == DataSourceIdsIn(dump_file["analysis_datasets"]
                                            \o dump_file["security_datasets"])
        IN  /\ IdsIn(dump_file["datasources"], "DataSourceId") = referenced
            /\ Len(dump_file["datasources"]) = Cardinality(referenced)

\* what the analysis of the source account depends on
NeededDataSets == DeclaredIds(source["analysis"])
NeededSecurityDataSets ==
    UNION {RlsIdOf(source["datasets"][id]) : id \in NeededDataSets}
NeededDataSources ==
    LET all == [i \in 1..MaxDataSets |-> source["datasets"][DataSetIdOf(i)]]
    IN  DataSourceIdsIn(SelectSeq(all, LAMBDA ds :
            ds["DataSetId"] \in NeededDataSets \cup NeededSecurityDataSets))

\* the command has come to its end, one way or another
Ended == pc \in {"imported", "printed", "escaped"}

\* C2: when an export is imported into a target account that accepts every
\* call, the import returns, for each kind of asset, as many results as the
\* analysis depends on distinct assets of that kind in the source account.
C2_RoundTripCounts ==
    (command = "put" /\ describe_log # << >> /\ Ended /\ ~refused) =>
        /\ pc = "imported"
        /\ Len(datasources) = Cardinality(NeededDataSources)
        /\ Len(security_datasets) = Cardinality(NeededSecurityDataSets)
        /\ Len(analysis_datasets) = Cardinality(NeededDataSets)

\* C10: each of the three extractors returns the empty set, and raises
\* nothing, when the definition it is given lacks the list or the category
\* of references it reads.
C10_AbsentReferencesYieldEmptySet ==
    probe # None =>
        LET absent ==
              CASE probe.fn = "get_analysis_dataset_ids" ->
                     "DataSetIdentifierDeclarations"
                         \notin DOMAIN probe.arg["Definition"]
                [] probe.fn = "get_rls_dataset_ids" ->
                     \A i \in DOMAIN probe.arg :
                        "RowLevelPermissionDataSet" \notin DOMAIN probe.arg[i]
                [] probe.fn = "get_datasource_ids" ->
                     \A i \in DOMAIN probe.arg :
                        "PhysicalTableMap" \notin DOMAIN probe.arg[i]
                [] OTHER -> FALSE
        IN  absent => probe.result = Ok({})

(***************************************************************************)
(* Properties of the import                                                *)
(***************************************************************************)
\* the calls of the last step that are dataset create or update calls
DataSetCalls ==
    {n \in DOMAIN last_calls :
        last_calls[n].kind \in {"security_dataset", "analysis_dataset"}}

\* the dataset of the dump file a dataset call was made for
OriginalOf(call) ==
    CHOOSE d \in Range(loaded[step]) :
        d["DataSetId"] \o IMPORT_SUFFIX = call.params["DataSetId"]

\* C3: in every create or update call for a dataset, every data-source
\* reference of every physical table, of whatever kind, is the locator the
\* target returned for that data source in step 1 and not the locator
\* recorded in the dump file.
C3_DataSourceReferencesRemapped ==
    \A n \in DataSetCalls :
        LET sent == last_calls[n].params["PhysicalTableMap"]
            original == OriginalOf(last_calls[n])["PhysicalTableMap"]
        IN  /\ DOMAIN sent = DOMAIN original
            /\ \A t \in DOMAIN original :
                 /\ DOMAIN sent[t] = DOMAIN original[t]
                 /\ \A k \in DOMAIN original[t] :
                      /\ sent[t][k]["DataSourceArn"]
                             # original[t][k]["DataSourceArn"]
                      /\ \E i \in DOMAIN datasources :
                           /\ datasources[i]["org_id"] = get_id_from_arn(
                                  original[t][k]["DataSourceArn"])
                           /\ datasources[i]["arn"] = sent[t][k]["DataSourceArn"]

\* a dataset with two tables on two data sources was created and, as it
\* existed already, updated
C3_TwoTablesSent ==
    \E n \in DataSetCalls :
        /\ last_calls[n].api = "update"
        /\ DOMAIN last_calls[n].params["PhysicalTableMap"] = {"t1", "t2"}
        /\ last_calls[n].params["PhysicalTableMap"]["t1"]
               # last_calls[n].params["PhysicalTableMap"]["t2"]

\* the kinds of calls in the order of their dependencies
CallKinds ==
    <<"datasource", "security_dataset", "analysis_dataset", "analysis",
      "dashboard", "publish">>

CallRank(kind) == CHOOSE r \in DOMAIN CallKinds : CallKinds[r] = kind

\* C4: the calls to the target occur in the order of the dependencies: data
\* sources, then security datasets, then analysis datasets, then the
\* analysis, then the dashboard, then the publication; no call of a later
\* kind comes before a call of an earlier kind.
C4_DependencyOrder ==
    \A i, j \in DOMAIN call_order :
        i < j => CallRank(call_order[i]) <= CallRank(call_order[j])

\* an import that made calls of all six kinds, several of some kind
C4_AllKindsCalled ==
    /\ pc = "imported"
    /\ Range(call_order) = Range(CallKinds)
    /\ Len(call_order) > Len(CallKinds) + 2

\* the analysis dataset of the dump file that step 3 dealt with last: the
\* one whose result is the last of the results, or the one that failed
HandledLast ==
    IF raised = "" THEN Len(analysis_datasets) ELSE Len(analysis_datasets) + 1

AssetCalls == SelectSeq(last_calls, LAMBDA c : c.api \in {"create", "update"})

\* C6: create_or_update_asset calls update exactly when create reported
\* that the object exists already, with the parameters of the create call
\* less Permissions and Type; any other failure of create is raised again
\* and update is not called.
C6_UpdateExactlyWhenExists ==
    AssetCalls # << >> =>
        LET create == AssetCalls[1]
            updates == {n \in DOMAIN AssetCalls : AssetCalls[n].api = "update"}
        IN  /\ create.api = "create"
            /\ updates # {} <=> create.outcome = "ResourceExistsException"
            /\ \A n \in updates :
                 /\ AssetCalls[n].kind = create.kind
                 /\ AssetCalls[n].params =
                        [k \in DOMAIN create.params \ {"Permissions", "Type"}
                            |-> create.params[k]]
            /\ create.outcome \notin {"answered", "ResourceExistsException"}
                 => raised = "ClientError" /\ updates = {}

\* the errors the commands are to catch: the validation, response and
\* cardinality errors (ValueError), the error for a reference that lacks
\* its field (IndexError), and the error of a create call
ListedError ==
    \/ raised \in {"ValueError", "IndexError"}
    \/ /\ raised = "ClientError"
       /\ last_calls # << >>
       /\ last_calls[Len(last_calls)].api = "create"

\* C7: no listed error raised in get_dump or import_dump leaves export_cli
\* or import_cli; the command prints it and returns.
C7_ListedErrorsCaught ==
    pc = "escaped" => ~ListedError

\* C8: import_dump of a dump that lacks one of its four sections fails with
\* a validation error before any call to the target is made.
C8_MissingSectionRejected ==
    (command = "put" /\ step # "" /\ ~(Sections \subseteq DOMAIN loaded)) =>
        /\ raised = "ValueError"
        /\ call_order = << >>

\* every entry of the map is an entry of the map in the next state
Kept(map, next) ==
    \A id \in DOMAIN map : id \in DOMAIN next /\ next[id] = map[id]

\* C11: in a run of import_dump the remap tables of the data sources and of
\* the datasets only grow: an entry is never removed and its new locator
\* never changes.
C11_RemapTablesAppendOnly ==
    [][/\ Kept(datasource_id_map, datasource_id_map')
       /\ Kept(dataset_id_map, dataset_id_map')]_vars

\* an import has come to its end with a dataset that is both a security
\* dataset and an analysis dataset, and with another analysis dataset
C11_DataSetInBothLists ==
    /\ pc = "imported"
    /\ DOMAIN datasource_id_map # {}
    /\ \E i \in DOMAIN security_datasets : \E j \in DOMAIN analysis_datasets :
          security_datasets[i]["org_id"] = analysis_datasets[j]["org_id"]
    /\ Cardinality(DOMAIN dataset_id_map) = 2

\* a call that failed: it raised an error, other than a create call's
\* report that the object exists, or it was answered with a status that is
\* not one of success
FailedCall(call) ==
    \/ /\ call.outcome # "answered"
       /\ ~(call.api = "create" /\ call.outcome = "ResourceExistsException")
    \/ /\ call.outcome = "answered"
       /\ call.status \notin 200..299

Failed == \E n \in DOMAIN last_calls : FailedCall(last_calls[n])

\* C12: once a create, update or publish call has failed, the run makes no
\* further call to the target, of any kind, and the objects that earlier
\* steps have created stay as they are.
C12_FailureStopsTheRun ==
    [][Failed => /\ call_order' = call_order
                 /\ last_calls' = last_calls
                 /\ target' = target]_vars

\* a command has ended after a call that failed, with objects of earlier
\* steps in the target account
C12_FailedAfterEarlierSteps ==
    /\ Ended /\ Failed
    /\ Cardinality(target) >= 2
    /\ Len(call_order) >= 3

(***************************************************************************)
(* Properties of essentials.py                                             *)
(***************************************************************************)
\* the status of a response is one of success
InSuccessRange(response) ==
    "Status" \in DOMAIN response /\ response["Status"] \in 200..299

\* the response that create_or_update_asset has to judge: that of create,
\* or that of update when create reported that the object exists
JudgedOutcome(arg) ==
    IF arg.created.raised = "" THEN arg.created ELSE arg.updated

\* what the claim says of describe_asset and of create_or_update_asset, and
\* of a search that is answered with a status that is not one of success
StatusCheckedElsewhere ==
    CASE probe.fn = "describe_asset" ->
           probe.arg.outcome.raised = "" =>
             LET response == probe.arg.outcome.value
             IN  IF InSuccessRange(response)
                 THEN probe.result =
                        Ok(IF probe.arg.lookup_field # NoLookup
                           THEN Get(response, probe.arg.lookup_field, None)
                           ELSE response)
                 ELSE probe.result = Raise("ValueError")
      [] probe.fn = "create_or_update_asset" ->
           (probe.arg.created.raised = "" \/ Exists(probe.arg.created)) =>
             LET judged == JudgedOutcome(probe.arg)
             IN  judged.raised = "" =>
                   IF InSuccessRange(judged.value)
                   THEN /\ probe.result.raised = ""
                        /\ probe.result.value = judged.value
                   ELSE /\ probe.result.raised = "ValueError"
                        /\ "value" \notin DOMAIN probe.result
      [] probe.fn \in {"find_assets", "find_asset_ids", "find_asset_id"} ->
           (/\ probe.arg.outcome.raised = ""
            /\ ~InSuccessRange(probe.arg.outcome.value))
             => probe.result = Raise("ValueError")
      [] OTHER -> TRUE

\* C13: a describe, search, create or update call that is answered with a
\* status outside 200..299, or with no status, raises ValueError and
\* returns nothing; one answered with a status inside the range returns
\* the response, or the field of it that is looked up.
C13_StatusDecides ==
    probe # None =>
        /\ StatusCheckedElsewhere
        /\ (/\ probe.fn = "find_assets"
            /\ probe.arg.outcome.raised = ""
            /\ InSuccessRange(probe.arg.outcome.value))
             => probe.result = Ok(Get(probe.arg.outcome.value,
                                      probe.arg.lookup_field, None))

\* C13, as the program behaves: as above, but a search that is answered
\* with a status inside the range returns the looked-up list only if the
\* list is there and has a match, and raises ValueError otherwise.
C13_StatusChecked ==
    probe # None =>
        /\ StatusCheckedElsewhere
        /\ (/\ probe.fn = "find_assets"
            /\ probe.arg.outcome.raised = ""
            /\ InSuccessRange(probe.arg.outcome.value))
             => LET response == probe.arg.outcome.value
                    field == probe.arg.lookup_field
                IN  IF field \in DOMAIN response /\ response[field] # << >>
                    THEN probe.result = Ok(response[field])
                    ELSE probe.result = Raise("ValueError")

\* a search was answered without a status and has raised ValueError
C13_SearchWithoutStatus ==
    /\ probe # None
    /\ probe.fn = "find_assets"
    /\ probe.arg.outcome.raised = ""
    /\ "Status" \notin DOMAIN probe.arg.outcome.value
    /\ Len(Get(probe.arg.outcome.value, "Assets", << >>)) = 2
    /\ probe.result = Raise("ValueError")

(***************************************************************************)
(* Further properties of the export                                        *)
(***************************************************************************)
\* how often the operation was called for the identifier
Described(operation, id) ==
    Cardinality({n \in DOMAIN describe_log : describe_log[n] = <<operation, id>>})

\* C14: in an exported bundle no dataset identifier occurs twice in
\* analysis_datasets and security_datasets taken together, no data-source
\* identifier occurs twice in datasources, and the definition and the
\* permissions of each of them were described exactly once.
C14_EachAssetOnce ==
    (command = "get" /\ pc = "exported") =>
        LET datasets == dump_file["analysis_datasets"]
                            \o dump_file["security_datasets"]
            sources == dump_file["datasources"]
        IN  /\ \A i, j \in DOMAIN datasets :
                  datasets[i]["DataSetId"] = datasets[j]["DataSetId"] => i = j
            /\ \A i, j \in DOMAIN sources :
                  sources[i]["DataSourceId"] = sources[j]["DataSourceId"] => i = j
            /\ \A i \in DOMAIN datasets :
                  /\ Described("describe_data_set", datasets[i]["DataSetId"]) = 1
                  /\ Described("describe_data_set_permissions",
                               datasets[i]["DataSetId"]) = 1
            /\ \A i \in DOMAIN sources :
                  /\ Described("describe_data_source",
                               sources[i]["DataSourceId"]) = 1
                  /\ Described("describe_data_source_permissions",
                               sources[i]["DataSourceId"]) = 1

\* a bundle with two datasets and two data sources has been exported, for
\* an analysis that declares a dataset and the row-level-security dataset
\* that dataset refers to
C14_SeveralAssetsExported ==
    /\ command = "get" /\ pc = "exported"
    /\ Len(dump_file["analysis_datasets"]) = 2
    /\ Len(dump_file["datasources"]) = 2
    /\ RlsIdsIn(dump_file["analysis_datasets"])
           \subseteq IdsIn(dump_file["analysis_datasets"], "DataSetId")
    /\ RlsIdsIn(dump_file["analysis_datasets"]) # {}

(***************************************************************************)
(* Further properties of the import                                        *)
(***************************************************************************)
\* the create and update calls of the last step for the analysis or the
\* dashboard
DefinitionCalls ==
    {n \in DOMAIN last_calls :
        /\ last_calls[n].api \in {"create", "update"}
        /\ last_calls[n].kind \in {"analysis", "dashboard"}}

Declarations(definition) ==
    definition["Definition"]["DataSetIdentifierDeclarations"]

\* C15: in the create or update call for the analysis, and in that for the
\* dashboard, every declared dataset reference is the new locator that the
\* dataset remap table holds for the dataset the dump file refers to, and
\* not the locator of the dump file.
C15_DeclarationsRemapped ==
    \A n \in DefinitionCalls :
        LET sent == Declarations(last_calls[n].params)
            original == Declarations(loaded["analysis"])
        IN  /\ Len(sent) = Len(original)
            /\ \A i \in DOMAIN original :
                 LET id == get_id_from_arn(original[i]["DataSetArn"])
                 IN  /\ id \in DOMAIN dataset_id_map
                     /\ sent[i]["DataSetArn"] = dataset_id_map[id]
                     /\ sent[i]["DataSetArn"] # original[i]["DataSetArn"]
                     /\ \E ds \in Range(security_datasets \o analysis_datasets) :
                           ds["org_id"] = id /\ ds["arn"] = sent[i]["DataSetArn"]

\* a dashboard with several declared datasets was created and, as it
\* existed already, updated
C15_DashboardSent ==
    \E n \in DefinitionCalls :
        /\ last_calls[n].kind = "dashboard"
        /\ last_calls[n].api = "update"
        /\ Len(Declarations(last_calls[n].params)) >= 2

\* the create and update calls of the last step for the dashboard
DashboardCalls ==
    {n \in DefinitionCalls : last_calls[n].kind = "dashboard"}

\* C16: the dashboard gets the identifier and the name of the analysis of
\* the dump file, each followed by "_dashboard", and not those of the
\* analysis that step 4 created; the analysis of the dump keeps its
\* identifier and its name while the analysis is prepared and imported.
C16_DashboardNamedAfterOriginal ==
    /\ \A n \in DashboardCalls :
          /\ last_calls[n].params["DashboardId"]
                 = loaded["analysis"]["AnalysisId"] \o <<"_dashboard">>
          /\ last_calls[n].params["Name"]
                 = loaded["analysis"]["Name"] \o <<"_dashboard">>
          /\ "AnalysisId" \notin DOMAIN last_calls[n].params
    /\ (command = "put" /\ step \in {"analysis", "dashboard"}) =>
          /\ assets_dump["analysis"]["AnalysisId"]
                 = loaded["analysis"]["AnalysisId"]
          /\ assets_dump["analysis"]["Name"] = loaded["analysis"]["Name"]

\* the dashboard was created after the analysis had been created under its
\* new identifier
C16_DashboardAfterAnalysis ==
    /\ DashboardCalls # {}
    /\ analysis # None
    /\ analysis["id"] = loaded["analysis"]["AnalysisId"] \o IMPORT_SUFFIX
    /\ dashboard # None
    /\ dashboard["id"] = loaded["analysis"]["AnalysisId"] \o <<"_dashboard">>

\* the publish calls of the run, and those of the last step
Published == {n \in DOMAIN call_order : call_order[n] = "publish"}
PublishCalls == {n \in DOMAIN last_calls : last_calls[n].api = "publish"}

\* the dashboard create or update call of the last step that was answered
\* with a status of success
DashboardAnswers ==
    {n \in DashboardCalls : /\ last_calls[n].outcome = "answered"
                            /\ last_calls[n].status \in 200..299}

\* the number after the last "/" of a locator
NumberAtEnd(arn, number) ==
    /\ Len(arn) >= 2
    /\ arn[Len(arn) - 1] = "/"
    /\ arn[Len(arn)] = ToString(number)

\* C17: the publish call is issued once, straight after the dashboard
\* create or update call that was answered with a status of success and
\* not otherwise, for the dashboard identifier of that answer and with the
\* number after the last "/" of its version locator; the result of the
\* import reports that number and the status of the publish call.
C17_PublishedOnce ==
    /\ Cardinality(Published) <= 1
    /\ Published # {} => PublishCalls # {}
    /\ \A n \in PublishCalls :
          /\ n = Len(last_calls) /\ n - 1 \in DashboardAnswers
          /\ last_calls[n].params["DashboardId"]
                 = last_calls[n - 1].response["DashboardId"]
          /\ NumberAtEnd(last_calls[n - 1].response["VersionArn"],
                         last_calls[n].params["VersionNumber"])
    /\ DashboardAnswers # {} => Cardinality(PublishCalls) = 1
    /\ (command = "put" /\ pc \in {"return", "imported"}) =>
          \E n \in PublishCalls :
             /\ dashboard["version"] = last_calls[n].params["VersionNumber"]
             /\ dashboard["publish_status"] = last_calls[n].status
             /\ dashboard["id"] = last_calls[n].params["DashboardId"]

\* an import has ended with the last of the versions published, for a
\* dashboard that existed already
C17_LastVersionPublished ==
    /\ pc = "imported"
    /\ dashboard["version"] = MaxVersion
    /\ \E n \in DashboardAnswers : last_calls[n].api = "update"
    /\ Cardinality(Published) = 1

(***************************************************************************)
(* Further properties of essentials.py                                     *)
(***************************************************************************)
\* the matches of the search a function was applied to
Matches == Get(probe.arg.outcome.value, probe.arg.lookup_field, << >>)

\* C18: of a search that is answered with success, find_asset_id raises an
\* error for no match and for more than one match and returns the
\* identifier of the match when there is exactly one; find_assets and
\* find_asset_ids raise an error for no match and otherwise return all
\* matches, or their identifiers, in the order of the response.
C18_LookupCardinality ==
    (/\ probe # None
     /\ probe.fn \in {"find_assets", "find_asset_ids", "find_asset_id"}
     /\ probe.arg.outcome.raised = ""
     /\ InSuccessRange(probe.arg.outcome.value)) =>
        CASE probe.fn = "find_assets" ->
               IF Len(Matches) = 0 THEN probe.result = Raise("ValueError")
               ELSE probe.result = Ok(Matches)
          [] probe.fn = "find_asset_ids" ->
               IF Len(Matches) = 0 THEN probe.result = Raise("ValueError")
               ELSE /\ probe.result.raised = ""
                    /\ Len(probe.result.value) = Len(Matches)
                    /\ \A i \in DOMAIN Matches :
                          probe.result.value[i] = Matches[i][probe.arg.id_key]
          [] probe.fn = "find_asset_id" ->
               IF Len(Matches) = 1
               THEN probe.result = Ok(Matches[1][probe.arg.id_key])
               ELSE probe.result = Raise("ValueError")

\* find_asset_id was applied to a search with two matches and has raised
C18_TwoMatches ==
    /\ probe # None
    /\ probe.fn = "find_asset_id"
    /\ probe.arg.outcome.raised = ""
    /\ InSuccessRange(probe.arg.outcome.value)
    /\ Len(Matches) = 2
    /\ probe.result = Raise("ValueError")

(***************************************************************************)
(* Credentials                                                             *)
(***************************************************************************)
\* the create and update calls of the current step that are about data
\* sources
DataSourceCalls == {n \in DOMAIN last_calls : last_calls[n].kind = "datasource"}

\* C19: every data-source entry of a bundle that get_dump has returned has
\* a null Credentials field, whatever the describe response contained, and
\* no create or update call for a data source that import_dump issues
\* carries a Credentials field.
C19_CredentialsNeverTravel ==
    /\ (source # NoSource /\ (pc = "exported" \/ command = "put")) =>
          \A i \in DOMAIN dump_file["datasources"] :
             /\ "Credentials" \in DOMAIN dump_file["datasources"][i]
             /\ dump_file["datasources"][i]["Credentials"] = None
    /\ \A n \in DataSourceCalls : "Credentials" \notin DOMAIN last_calls[n].params

\* a data source whose describe response carried credentials was exported
\* and then created in the target account
C19_DescribedWithCredentials ==
    /\ command = "put" /\ source # NoSource
    /\ "Credentials" \in DOMAIN DataSourceDefinition(SourceAccount, DataSourceIdOf(1))
    /\ \E i \in DOMAIN dump_file["datasources"] :
          dump_file["datasources"][i]["DataSourceId"] = DataSourceIdOf(1)
    /\ \E n \in DataSourceCalls :
          /\ last_calls[n].api = "create" /\ last_calls[n].outcome = "answered"
          /\ last_calls[n].params["DataSourceId"] = DataSourceIdOf(1) \o IMPORT_SUFFIX

(***************************************************************************)
(* Locators                                                                *)
(***************************************************************************)
\* the positions of a token in a string
Positions(str, token) == {i \in DOMAIN str : str[i] = token}

\* what follows the last "/" of a string that has one
AfterFinalSlash(str) ==
    LET last == CHOOSE i \in Positions(str, "/") :
                    \A j \in Positions(str, "/") : j <= i
    IN  SubSeq(str, last + 1, Len(str))

\* the n-th of the segments that the colons of a string delimit
Segment(str, n) ==
    LET colons == Positions(str, ":")
        start == IF n = 1 THEN 0
                 ELSE CHOOSE i \in colons :
                         Cardinality({j \in colons : j <= i}) = n - 1
        later == {i \in colons : i > start}
        end == IF later = {} THEN Len(str) + 1
               ELSE CHOOSE i \in later : \A j \in later : i <= j
    IN  SubSeq(str, start + 1, end - 1)

\* C20: of a locator scheme:partition:service:region:account:kind/identifier
\* get_id_from_arn returns what follows the final "/" and
\* get_account_id_from_arn the fifth of the segments its colons delimit;
\* get_asset_ids_from_definition gives, in the order of its input, the
\* identifier of each entry's locator, and raises IndexError when an entry
\* has no locator field.
C20_LocatorParts ==
    probe # None =>
        CASE probe.fn = "get_id_from_arn" ->
               probe.result = AfterFinalSlash(probe.arg)
          [] probe.fn = "get_account_id_from_arn" ->
               probe.result = Segment(probe.arg, 5)
          [] probe.fn = "get_asset_ids_from_definition" ->
               LET definitions == probe.arg.definitions
               IN  IF \E i \in DOMAIN definitions :
                         probe.arg.arn_key \notin DOMAIN definitions[i]
                   THEN probe.result = Raise("IndexError")
                   ELSE /\ probe.result.raised = ""
                        /\ Len(probe.result.value) = Len(definitions)
                        /\ \A i \in DOMAIN definitions :
                              probe.result.value[i] =
                                 AfterFinalSlash(definitions[i][probe.arg.arn_key])
          [] OTHER -> TRUE

\* the account of a locator without a region was asked for
C20_AccountOfLocatorWithoutRegion ==
    /\ probe # None
    /\ probe.fn = "get_account_id_from_arn"
    /\ Segment(probe.arg, 4) = << >>
    /\ probe.result = TargetAccount

(***************************************************************************)
(* The update fallback for records without a permission list               *)
(***************************************************************************)
\* the key under which the records of a section of the dump carry their id
IdKeyOf(section) == IF section = "datasources" THEN "DataSourceId" ELSE "DataSetId"

\* the records of the dump file that have a null Permissions field and that
\* the create call at the head of the current step was made for
NullPermissionRecords ==
    IF /\ command = "put"
       /\ step \in {"datasources", "security_datasets", "analysis_datasets"}
       /\ step \in DOMAIN loaded
       /\ last_calls # << >>
    THEN {d \in Range(loaded[step]) :
            /\ last_calls[1].api = "create"
            /\ IdKeyOf(step) \in DOMAIN last_calls[1].params
            /\ d[IdKeyOf(step)] \o IMPORT_SUFFIX = last_calls[1].params[IdKeyOf(step)]
            /\ d["Permissions"] = None}
    ELSE {}

\* C21: when import_dump imports a data source or a dataset whose
\* Permissions field is null in the dump file and the target answers the
\* create call with already-exists, the update call is issued with the
\* remaining parameters and the import goes on: no error of the fallback
\* itself ends it.
C21_UpdateWithoutPermissions ==
    (/\ NullPermissionRecords # {}
     /\ last_calls[1].outcome = "ResourceExistsException") =>
        /\ Len(last_calls) = 2
        /\ last_calls[2].api = "update"
        /\ last_calls[2].params =
               [k \in DOMAIN last_calls[1].params \ {"Permissions", "Type"}
                   |-> last_calls[1].params[k]]
        /\ raised # "KeyError"
        /\ (last_calls[2].outcome = "answered" /\ last_calls[2].status \in 200..299)
               => raised = ""

====
